---- MODULE Spec2Model ----
(***************************************************************************)
(* Model of main.py: a FastAPI application that relays uploads and text    *)
(* messages to a Discord channel through one shared discord.Client, and    *)
(* the background task that connects that client.                          *)
(*                                                                         *)
(* Every coroutine runs on one asyncio event loop, so a handler is atomic  *)
(* between two awaits.  An action of this module is one such segment.      *)
(***************************************************************************)
EXTENDS Integers, FiniteSets, Sequences, TLC

\* ---------------------------------------------------------------- bounds
\* number of HTTP requests that the server receives in a run
NumReq == 2

Req == 1 .. NumReq

\* ---------------------------------------------------------------- inputs
\* channel_id form/path values: "1" is in the client's cache, "2" is an
\* integer that is not, "x" is not an integer literal
ChannelIds == {"1", "2", "x"}

\* the optional message form field; "<None>" stands for Python's None
Messages == {"<None>", "", "hi"}

\* the optional file part: absent, or an UploadFile with its filename
NoFile == [present |-> FALSE, filename |-> ""]

Files == {NoFile} \cup {[present |-> TRUE, filename |-> n] : n \in {"", "f", "g"}}

Kinds == {"channels", "messages", "upload"}

NoRequest == [kind |-> "none", channel_id |-> "", message |-> "<None>", file |-> NoFile]

NoResponse == [status |-> 0, detail |-> ""]

VARIABLES
    httpState,   \* "starting" until the startup event handler has returned, then "serving"
    botState,    \* task of client.start(): "none", "scheduled", "connecting", "ready", "failed"
    botError,    \* exception the task ended with: "none", "auth", "other"
    attempts,    \* number of login attempts made
    procExited,  \* TRUE once sys.exit(1) has run in the startup handler
    pc,          \* per request: "idle", "reading", "sending", "awaiting", "history", "done"
    req,         \* per request: the inputs of the call
    file_path,   \* per request: local file_path of upload_file ("" is None)
    wfd,         \* per request: inode behind the handle of open(file_path, "wb"), 0 if none
    rfd,         \* per request: inode behind discord.File(file_path).fp, 0 if none
    payload,     \* per request: bytes the send has read from rfd (0: nothing read)
    sendArgs,    \* per request: arguments of the channel.send it issued
    okSends,     \* per request: number of channel.send calls that returned normally
    delivered,   \* per request: attachment bytes that arrived in the channel (-1: none)
    resp,        \* per request: the HTTP response
    fs,          \* directory /tmp: path -> inode (0: no such file)
    content      \* inode -> bytes (0: empty); the bytes uploaded by request r are r

vars == <<httpState, botState, botError, attempts, procExited, pc, req, file_path,
          wfd, rfd, payload, sendArgs, okSends, delivered, resp, fs, content>>

botVars == <<botState, botError, attempts, procExited>>

reqVars == <<pc, req, file_path, wfd, rfd, payload, sendArgs, okSends, delivered, resp>>

diskVars == <<fs, content>>

\* ------------------------------------------------------- pure functions
\* f"/tmp/{file.filename}"
TmpPath(filename) == IF filename = "f" THEN "/tmp/f" ELSE IF filename = "g" THEN "/tmp/g" ELSE "/tmp/"

Paths == {"/tmp/f", "/tmp/g"}

\* Python truthiness of `message`: None and "" are falsy
MessageTruthy(message) == message \notin {"<None>", ""}

\* Python truthiness of `file`: an UploadFile object is truthy whatever its filename
FileTruthy(file) == file.present

\* int(channel_id): 0 stands for ValueError
ParseInt(s) == IF s = "1" THEN 1 ELSE IF s = "2" THEN 2 ELSE 0

\* channels in the client's cache
CachedChannels == {1}

\* client.get_channel(id): 0 stands for None
get_channel(id) == IF id \in CachedChannels THEN id ELSE 0

\* client.is_ready()
is_ready == botState = "ready"

NoSend == [issued |-> FALSE, content |-> "", hasFile |-> FALSE]

Init ==
    /\ httpState = "starting"
    /\ botState = "none"
    /\ botError = "none"
    /\ attempts = 0
    /\ procExited = FALSE
    /\ pc = [r \in Req |-> "idle"]
    /\ req = [r \in Req |-> NoRequest]
    /\ file_path = [r \in Req |-> ""]
    /\ wfd = [r \in Req |-> 0]
    /\ rfd = [r \in Req |-> 0]
    /\ payload = [r \in Req |-> 0]
    /\ sendArgs = [r \in Req |-> NoSend]
    /\ okSends = [r \in Req |-> 0]
    /\ delivered = [r \in Req |-> -1]
    /\ resp = [r \in Req |-> NoResponse]
    /\ fs = [p \in Paths |-> 0]
    /\ content = [i \in Req |-> 0]

\* ------------------------------------------------------------- startup
\* variant: the handler awaits client.start(), which returns only when the
\* connection ends, so the startup event never completes
start_discord_bot_awaits ==
    /\ httpState = "starting"
    /\ botState = "none"
    /\ botState' = "scheduled"
    /\ UNCHANGED <<httpState, botError, attempts, procExited>>
    /\ UNCHANGED reqVars
    /\ UNCHANGED diskVars

\* @app.on_event("startup"): create_task only schedules client.start(); the
\* handler has no await and returns before the task runs its first step.
\* create_task does not raise inside a running loop, so the except branch
\* (sys.exit(1)) is never taken.
start_discord_bot ==
    /\ httpState = "starting"
    /\ httpState' = "serving"
    /\ botState' = "scheduled"
    /\ UNCHANGED <<botError, attempts, procExited>>
    /\ UNCHANGED reqVars
    /\ UNCHANGED diskVars

\* client.start(token), first half: login.  LoginFailure ends the task.
client_login ==
    /\ botState = "scheduled"
    /\ attempts' = attempts + 1
    /\ \E outcome \in {"ok", "auth", "other"} :
          IF outcome = "ok"
          THEN botState' = "connecting" /\ botError' = botError
          ELSE botState' = "failed" /\ botError' = outcome
    /\ UNCHANGED <<httpState, procExited>>
    /\ UNCHANGED reqVars
    /\ UNCHANGED diskVars

\* client.start(token), second half: connect.  Either READY arrives
\* (on_ready runs, is_ready() becomes true) or the task ends with an error.
client_connect ==
    /\ botState = "connecting"
    /\ \E ok \in BOOLEAN :
          IF ok
          THEN botState' = "ready" /\ botError' = botError
          ELSE botState' = "failed" /\ botError' = "other"
    /\ UNCHANGED <<httpState, attempts, procExited>>
    /\ UNCHANGED reqVars
    /\ UNCHANGED diskVars

\* ------------------------------------------------------ handler pieces
\* variant: the readiness check is missing
NotReadyStatusNever(ready) == 0

\* `if not client.is_ready(): raise HTTPException(status_code=503, ...)`:
\* the status raised, 0 when the handler goes on
NotReadyStatus(ready) == IF ready THEN 0 ELSE 503

\* variant: readiness is checked before the presence of message and file
UploadPreCheckReadyFirst(message, file, ready) ==
    IF ~ready THEN 503
    ELSE IF ~MessageTruthy(message) /\ ~FileTruthy(file) THEN 400 ELSE 0

\* the two checks at the top of upload_file, in the order of the code
UploadPreCheck(message, file, ready) ==
    IF ~MessageTruthy(message) /\ ~FileTruthy(file) THEN 400 ELSE NotReadyStatus(ready)

PreCheckDetail(status) == IF status = 400 THEN "no message or file" ELSE "Discord bot is not ready."

\* content = message if message is not None else ""
Content(message) == IF message = "<None>" THEN "" ELSE message

\* variant: the except branch swallows the error and acknowledges
ExceptResponseSwallow(e) == [status |-> 200, detail |-> "done"]

\* `except Exception as e: raise HTTPException(status_code=500, detail=f"...: {e}")`
\* An HTTPException raised inside the try block is an Exception and lands here too.
ExceptResponse(e) == [status |-> 500, detail |-> e]

\* str(HTTPException(status_code=404, detail="Discord channel not found."))
NotFoundText == "404: Discord channel not found."

\* return {"message": ...}
SuccessResponse == [status |-> 200, detail |-> "done"]

\* variant: no removal in the finally block
CleanupNone(dir, path) == dir

\* finally: if file_path and os.path.exists(file_path): os.remove(file_path)
Cleanup(dir, path) ==
    IF path # "" /\ path \in DOMAIN dir /\ dir[path] # 0 THEN [dir EXCEPT ![path] = 0] ELSE dir

\* the branch test `if file and file.filename`
HasAttachment(file) == FileTruthy(file) /\ file.filename # ""

\* Discord refuses a message that has neither content nor attachment
SendAcceptable(args) == args.content # "" \/ args.hasFile

\* the handler returns or raises: the response goes out and the handler's
\* file objects are dropped
Finish(r, response) ==
    /\ pc' = [pc EXCEPT ![r] = "done"]
    /\ resp' = [resp EXCEPT ![r] = response]
    /\ wfd' = [wfd EXCEPT ![r] = 0]
    /\ rfd' = [rfd EXCEPT ![r] = 0]
    /\ payload' = [payload EXCEPT ![r] = 0]

\* ------------------------------------------------------- GET /channels
get_channels(r) ==
    /\ httpState = "serving"
    /\ pc[r] = "idle"
    /\ req' = [req EXCEPT ![r] = [NoRequest EXCEPT !.kind = "channels"]]
    /\ LET st == NotReadyStatus(is_ready)
       IN  IF st # 0
           THEN Finish(r, [status |-> st, detail |-> PreCheckDetail(st)])
           ELSE Finish(r, [status |-> 200, detail |-> "channels"])
    /\ UNCHANGED <<file_path, sendArgs, okSends, delivered>>
    /\ UNCHANGED <<httpState, botVars, diskVars>>

\* --------------------------------------------- GET /messages/{channel_id}
\* up to the await inside `async for msg in channel.history(limit=50)`
get_messages(r) ==
    /\ httpState = "serving"
    /\ pc[r] = "idle"
    /\ \E cid \in ChannelIds :
          /\ req' = [req EXCEPT ![r] = [NoRequest EXCEPT !.kind = "messages", !.channel_id = cid]]
          /\ LET st == NotReadyStatus(is_ready)
             IN  IF st # 0
                 THEN Finish(r, [status |-> st, detail |-> PreCheckDetail(st)])
                 ELSE IF ParseInt(cid) = 0
                 THEN Finish(r, ExceptResponse("ValueError"))
                 ELSE IF get_channel(ParseInt(cid)) = 0
                 THEN Finish(r, ExceptResponse(NotFoundText))
                 ELSE /\ pc' = [pc EXCEPT ![r] = "history"]
                      /\ UNCHANGED <<resp, wfd, rfd, payload>>
    /\ UNCHANGED <<file_path, sendArgs, okSends, delivered>>
    /\ UNCHANGED <<httpState, botVars, diskVars>>

\* channel.history() finishes: the list is returned, or its error is wrapped
history_done(r) ==
    /\ pc[r] = "history"
    /\ \E ok \in BOOLEAN :
          IF ok
          THEN Finish(r, [status |-> 200, detail |-> "messages"])
          ELSE Finish(r, ExceptResponse("history failed"))
    /\ UNCHANGED <<req, file_path, sendArgs, okSends, delivered>>
    /\ UNCHANGED <<httpState, botVars, diskVars>>

\* ------------------------------------------------------- POST /upload/
\* upload_file from its entry to its first await: `await file.read()` when a
\* file with a filename came, `await channel.send(content=content)` otherwise
upload_file(r) ==
    /\ httpState = "serving"
    /\ pc[r] = "idle"
    /\ \E cid \in ChannelIds, message \in Messages, file \in Files, openOk \in BOOLEAN :
          /\ req' = [req EXCEPT ![r] = [kind |-> "upload", channel_id |-> cid,
                                        message |-> message, file |-> file]]
          /\ LET st == UploadPreCheck(message, file, is_ready)
                 path == TmpPath(file.filename)
             IN  IF st # 0
                 THEN /\ Finish(r, [status |-> st, detail |-> PreCheckDetail(st)])
                      /\ UNCHANGED <<file_path, sendArgs, diskVars>>
                 ELSE IF ParseInt(cid) = 0
                 THEN /\ Finish(r, ExceptResponse("ValueError"))
                      /\ UNCHANGED <<file_path, sendArgs, diskVars>>
                 ELSE IF get_channel(ParseInt(cid)) = 0
                 THEN /\ Finish(r, ExceptResponse(NotFoundText))
                      /\ UNCHANGED <<file_path, sendArgs, diskVars>>
                 ELSE IF HasAttachment(file)
                 THEN /\ file_path' = [file_path EXCEPT ![r] = path]
                      /\ sendArgs' = sendArgs
                      /\ IF openOk
                         THEN \* open(file_path, "wb") creates the file or truncates it
                              /\ wfd' = [wfd EXCEPT ![r] = IF fs[path] = 0 THEN r ELSE fs[path]]
                              /\ fs' = [fs EXCEPT ![path] = IF fs[path] = 0 THEN r ELSE fs[path]]
                              /\ content' = [content EXCEPT ![IF fs[path] = 0 THEN r ELSE fs[path]] = 0]
                              /\ pc' = [pc EXCEPT ![r] = "reading"]
                              /\ UNCHANGED <<resp, rfd, payload>>
                         ELSE \* open raises OSError
                              /\ fs' = Cleanup(fs, path)
                              /\ content' = content
                              /\ Finish(r, ExceptResponse("OSError"))
                 ELSE /\ sendArgs' = [sendArgs EXCEPT ![r] =
                              [issued |-> TRUE, content |-> Content(message), hasFile |-> FALSE]]
                      /\ pc' = [pc EXCEPT ![r] = "awaiting"]
                      /\ UNCHANGED <<resp, wfd, rfd, payload>>
                      /\ UNCHANGED <<file_path, diskVars>>
    /\ UNCHANGED <<okSends, delivered>>
    /\ UNCHANGED <<httpState, botVars>>

\* file.read() returns: f.write(...), the with block closes the file,
\* discord.File(file_path) opens it again for reading and channel.send starts
upload_write(r) ==
    /\ pc[r] = "reading"
    /\ \E ok \in BOOLEAN :
          IF ~ok
          THEN \* file.read() or f.write() raises
               /\ Finish(r, ExceptResponse("write failed"))
               /\ fs' = Cleanup(fs, file_path[r])
               /\ UNCHANGED <<content, sendArgs>>
          ELSE /\ content' = [content EXCEPT ![wfd[r]] = r]
               /\ IF fs[file_path[r]] = 0
                  THEN \* the path was removed meanwhile: discord.File raises FileNotFoundError
                       /\ Finish(r, ExceptResponse("FileNotFoundError"))
                       /\ fs' = Cleanup(fs, file_path[r])
                       /\ sendArgs' = sendArgs
                  ELSE /\ rfd' = [rfd EXCEPT ![r] = fs[file_path[r]]]
                       /\ sendArgs' = [sendArgs EXCEPT ![r] =
                              [issued |-> TRUE, content |-> Content(req[r].message), hasFile |-> TRUE]]
                       /\ pc' = [pc EXCEPT ![r] = "sending"]
                       /\ UNCHANGED <<resp, fs, wfd, payload>>
    /\ UNCHANGED <<req, file_path, okSends, delivered>>
    /\ UNCHANGED <<httpState, botVars>>

\* inside channel.send: the library reads the attachment from the open file
send_read(r) ==
    /\ pc[r] = "sending"
    /\ payload' = [payload EXCEPT ![r] = content[rfd[r]]]
    /\ pc' = [pc EXCEPT ![r] = "awaiting"]
    /\ UNCHANGED <<req, file_path, wfd, rfd, sendArgs, okSends, delivered, resp>>
    /\ UNCHANGED <<httpState, botVars, diskVars>>

\* channel.send returns or raises; then return / except, and finally
send_done(r) ==
    /\ pc[r] \in {"sending", "awaiting"}
    /\ \E ok \in BOOLEAN :
          IF ok
          THEN /\ pc[r] = "awaiting"
               /\ SendAcceptable(sendArgs[r])
               /\ okSends' = [okSends EXCEPT ![r] = @ + 1]
               /\ delivered' = [delivered EXCEPT ![r] = IF sendArgs[r].hasFile THEN payload[r] ELSE @]
               /\ Finish(r, SuccessResponse)
          ELSE /\ Finish(r, ExceptResponse("send failed"))
               /\ UNCHANGED <<okSends, delivered>>
    /\ fs' = Cleanup(fs, file_path[r])
    /\ UNCHANGED <<req, file_path, sendArgs, content>>
    /\ UNCHANGED <<httpState, botVars>>

Next ==
    \/ start_discord_bot
    \/ client_login
    \/ client_connect
    \/ \E r \in Req : get_channels(r)
    \/ \E r \in Req : get_messages(r)
    \/ \E r \in Req : history_done(r)
    \/ \E r \in Req : upload_file(r)
    \/ \E r \in Req : upload_write(r)
    \/ \E r \in Req : send_read(r)
    \/ \E r \in Req : send_done(r)

Spec == Init /\ [][Next]_vars

\* the event loop runs a ready callback: the startup handler, once the server
\* has begun its lifespan startup, is run to completion
LiveSpec == Init /\ [][Next]_vars /\ WF_vars(start_discord_bot)

\* ------------------------------------------------------------ properties
Handled(r) == pc[r] = "idle" /\ pc'[r] # "idle"

Completes(r) == pc[r] # "done" /\ pc'[r] = "done"

InFlight(r) == pc[r] \in {"reading", "sending", "awaiting", "history"}

\* an integer identifier that client.get_channel does not find
Unresolved(cid) == ParseInt(cid) # 0 /\ get_channel(ParseInt(cid)) = 0

Resolved(cid) == ParseInt(cid) # 0 /\ get_channel(ParseInt(cid)) # 0

\* an upload that carries neither a message nor a file
EmptyUpload(q) == q.kind = "upload" /\ ~MessageTruthy(q.message) /\ q.file = NoFile

\* causes that the forwarding part of upload_file can raise
ForwardingCauses == {"OSError", "write failed", "FileNotFoundError", "send failed"}

\* C1: a request to POST /upload/ (with a message or a file) or to
\* GET /messages/{channel_id} that is handled while the client is ready and
\* whose channel identifier is not in the client's cache is answered with 404.
C1_UnresolvedChannelIs404 ==
    [][\A r \in Req :
          (/\ Handled(r)
           /\ is_ready
           /\ req'[r].kind \in {"messages", "upload"}
           /\ ~EmptyUpload(req'[r])
           /\ Unresolved(req'[r].channel_id))
          => resp'[r].status = 404]_vars

\* C2: when an upload that chose a temporary path completes, on whatever exit
\* path, no file exists at that path.
C2_TempFileAbsentAtCompletion ==
    [][\A r \in Req :
          (Completes(r) /\ file_path'[r] # "") => fs'[file_path'[r]] = 0]_vars

\* C2 witness: an upload wrote /tmp/f, was sent successfully and has completed;
\* another one chose a path and ended in an error.
C2_Witness ==
    \E r1, r2 \in Req :
        /\ pc[r1] = "done" /\ file_path[r1] # "" /\ resp[r1].status = 200
        /\ delivered[r1] = r1
        /\ pc[r2] = "done" /\ file_path[r2] # "" /\ resp[r2].status = 500
        /\ \A p \in Paths : fs[p] = 0

\* C3 as stated: every request to one of the three endpoints handled while
\* the client is not ready is answered with 503.
C3_Original ==
    [][\A r \in Req : (Handled(r) /\ ~is_ready) => resp'[r].status = 503]_vars

\* C3 amended: a request to GET /channels, to GET /messages/{channel_id}, or
\* to POST /upload/ with a message or a file, handled while the client is not
\* ready, is answered with 503 at once, sends nothing, writes no temporary
\* file, and stays completed with the same response whatever happens later.
C3_NotReadyRejected ==
    [][\A r \in Req :
          /\ (Handled(r) /\ ~is_ready /\ ~EmptyUpload(req'[r]))
             => /\ pc'[r] = "done"
                /\ resp'[r].status = 503
                /\ sendArgs'[r] = NoSend
                /\ file_path'[r] = ""
                /\ okSends' = okSends
                /\ fs' = fs
                /\ content' = content
          /\ (pc[r] = "done" /\ resp[r].status = 503)
             => /\ pc'[r] = "done"
                /\ resp'[r] = resp[r]
                /\ sendArgs'[r] = NoSend
                /\ okSends'[r] = 0]_vars

\* C3 witness: an upload with a message and a file was answered with 503, and
\* the client has become ready since; nothing was sent for it.
C3_Witness ==
    \E r \in Req :
        /\ pc[r] = "done" /\ resp[r].status = 503
        /\ req[r].kind = "upload" /\ req[r].message = "hi" /\ req[r].file.filename = "f"
        /\ Resolved(req[r].channel_id)
        /\ is_ready
        /\ sendArgs[r] = NoSend /\ okSends[r] = 0

\* C4: an upload with neither message nor file is answered with 400, whatever
\* the connection state and the channel identifier; it sends nothing and
\* writes no temporary file.
C4_EmptyUploadIs400 ==
    [][\A r \in Req :
          (Handled(r) /\ EmptyUpload(req'[r]))
          => /\ pc'[r] = "done"
             /\ resp'[r].status = 400
             /\ sendArgs'[r] = NoSend
             /\ file_path'[r] = ""
             /\ okSends' = okSends
             /\ fs' = fs
             /\ content' = content]_vars

\* C4 witness: an empty upload for an identifier that is not in the cache was
\* answered with 400 while the client was not ready (readiness, once reached,
\* stays, so the client was not ready when the request was handled).
C4_Witness ==
    \E r \in Req :
        /\ pc[r] = "done" /\ EmptyUpload(req[r]) /\ resp[r].status = 400
        /\ Unresolved(req[r].channel_id)
        /\ sendArgs[r] = NoSend /\ file_path[r] = ""
        /\ ~is_ready

\* C5: a login+connect attempt that fails for another reason than
\* authentication is repeated, 5 attempts in all, and when all have failed
\* the process exits.
C5_RetriesThenExits ==
    (botState = "failed" /\ botError = "other") => (attempts = 5 /\ procExited)

\* C6: after an authentication failure no further attempt is made and the
\* process exits.
C6_AuthFailureExits ==
    (botState = "failed" /\ botError = "auth") => (attempts = 1 /\ procExited)

\* C7: two uploads with files that are in flight together use distinct
\* temporary paths, and every attachment that arrives in the channel has the
\* bytes its own request received.
C7_DistinctPathsOwnBytes ==
    /\ \A r1, r2 \in Req :
          (r1 # r2 /\ InFlight(r1) /\ InFlight(r2) /\ file_path[r1] # "" /\ file_path[r2] # "")
          => file_path[r1] # file_path[r2]
    /\ \A r \in Req : delivered[r] \in {-1, r}

\* C8: every send that upload_file issues has a non-empty content or an
\* attachment.
C8_SendNeverEmpty ==
    \A r \in Req : sendArgs[r].issued => (sendArgs[r].content # "" \/ sendArgs[r].hasFile)

\* C9: an upload that got past validation and channel lookup is acknowledged
\* only after exactly one send that returned normally; otherwise it gets an
\* error response whose detail is the cause raised, and no send returned.
C9_AckIffSent ==
    \A r \in Req :
        (/\ pc[r] = "done"
         /\ req[r].kind = "upload"
         /\ Resolved(req[r].channel_id)
         /\ resp[r].status \notin {400, 503})
        => \/ resp[r].status = 200 /\ okSends[r] = 1 /\ sendArgs[r].issued
           \/ resp[r].status = 500 /\ okSends[r] = 0 /\ resp[r].detail \in ForwardingCauses

\* C9 witness: one upload was sent and acknowledged, another one's send failed
\* and it was answered with that cause.
C9_Witness ==
    \E r1, r2 \in Req :
        /\ pc[r1] = "done" /\ resp[r1].status = 200 /\ okSends[r1] = 1
        /\ pc[r2] = "done" /\ sendArgs[r2].issued /\ SendAcceptable(sendArgs[r2])
        /\ resp[r2] = [status |-> 500, detail |-> "send failed"]

\* C10: the startup handler completes in every run, so the server comes to
\* accept requests whatever the connection task does, and the connection
\* task, while it has a step to take, can take it whatever the requests do.
C10_StartsIndependently ==
    /\ <>(httpState = "serving")
    /\ [](botState = "scheduled" => ENABLED client_login)
    /\ [](botState = "connecting" => ENABLED client_connect)

\* C10 witness: the server has answered a request while the connection task
\* has not yet logged in.
C10_Witness ==
    /\ httpState = "serving"
    /\ botState = "scheduled"
    /\ \E r \in Req : pc[r] = "done" /\ resp[r].status = 503

====
